---- MODULE Spec2Model ----
(***************************************************************************)
(* The configuration compiler of mapcache/src/configuration.c: the four    *)
(* name-keyed registries, the per-entity parsers and the orchestrator      *)
(* geocache_configuration_parse, as a state machine that reads the         *)
(* top-level children of the document one at a time.                       *)
(*                                                                         *)
(* Text (attribute values, element content) is a sequence of one-character *)
(* strings, so that strtol, the list splitters and strcmp act on the       *)
(* characters as the C code does.  Tag and attribute names are strings.    *)
(***************************************************************************)
EXTENDS Integers, Sequences, FiniteSets, TLC

\* ------------------------------------------------------------------ bounds

\* The largest number of top-level children a document has.
MaxDoc == 5

\* The largest number of them that are no elements (white space, comments).
MaxText == 1

\* ------------------------------------------------------------------ text

\* A C string that is the null pointer (distinct from the empty string <<>>).
NullStr == <<"\\0">>

\* strlen(s) for a non-null string.
strlen(s) == Len(s)

isspace(c) == c \in {" ", "\t", "\n", "\r"}

isdigit(c) == c \in {"0", "1", "2", "3", "4", "5", "6", "7", "8", "9"}

DigitVal(c) ==
  CASE c = "0" -> 0 [] c = "1" -> 1 [] c = "2" -> 2 [] c = "3" -> 3 [] c = "4" -> 4
    [] c = "5" -> 5 [] c = "6" -> 6 [] c = "7" -> 7 [] c = "8" -> 8 [] c = "9" -> 9

RECURSIVE SkipSpace(_)
SkipSpace(s) == IF s # <<>> /\ isspace(Head(s)) THEN SkipSpace(Tail(s)) ELSE s

RECURSIVE DigitRun(_)
\* The number of leading decimal digits of s.
DigitRun(s) == IF s # <<>> /\ isdigit(Head(s)) THEN 1 + DigitRun(Tail(s)) ELSE 0

\* A 64-bit magnitude as four 16-bit limbs, least significant first, with a
\* flag set once the magnitude no longer fits 64 bits.
Limb == 256 * 256

LimbZero == [l |-> <<0, 0, 0, 0>>, over |-> FALSE]

\* m * 10 + d on the limbs.
LimbMulAdd(m, d) ==
  LET p1 == m.l[1] * 10 + d
      p2 == m.l[2] * 10 + (p1 \div Limb)
      p3 == m.l[3] * 10 + (p2 \div Limb)
      p4 == m.l[4] * 10 + (p3 \div Limb)
  IN [l |-> <<p1 % Limb, p2 % Limb, p3 % Limb, p4 % Limb>>,
      over |-> m.over \/ (p4 \div Limb) > 0]

RECURSIVE LimbAcc(_, _)
\* The magnitude of the digit string s, accumulated left to right from m.
LimbAcc(s, m) == IF s = <<>> THEN m ELSE LimbAcc(Tail(s), LimbMulAdd(m, DigitVal(Head(s))))

\* The low 32 bits (two 16-bit halves) read as a signed machine int.
SignedInt32(hi, lo) == IF hi >= 32768 THEN (hi - Limb) * Limb + lo ELSE hi * Limb + lo

\* (int) of the long that has magnitude m and the given sign, after strtol's
\* clamping to LONG_MIN..LONG_MAX (a 64-bit long).
LongToInt(m, neg) ==
  LET top == m.l[4] >= 32768
  IN IF ~neg
       THEN IF m.over \/ top
              THEN -1                    \* (int)LONG_MAX
              ELSE SignedInt32(m.l[2], m.l[1])
       ELSE IF m.over \/ top
              THEN 0                     \* (int)LONG_MIN
              ELSE LET lo == (Limb - m.l[1]) % Limb
                       borrow == IF m.l[1] # 0 THEN 1 ELSE 0
                       hi == (2 * Limb - m.l[2] - borrow) % Limb
                   IN SignedInt32(hi, lo)

\* (int)strtol(s, &endptr, 10): leading white space, an optional sign, then
\* decimal digits; val is the value truncated to int and endptr the unread
\* rest of s.  With no digit at all nothing is consumed and the value is 0.
strtol(s) ==
  LET t == SkipSpace(s)
      signed == t # <<>> /\ Head(t) \in {"-", "+"}
      neg == t # <<>> /\ Head(t) = "-"
      u == IF signed THEN Tail(t) ELSE t
      n == DigitRun(u)
  IN IF n = 0
       THEN [val |-> 0, endptr |-> s]
       ELSE [val |-> LongToInt(LimbAcc(SubSeq(u, 1, n), LimbZero), neg),
             endptr |-> SubSeq(u, n + 1, Len(u))]

RECURSIVE SmallAcc(_, _)
SmallAcc(s, a) == IF s = <<>> THEN a ELSE SmallAcc(Tail(s), a * 10 + DigitVal(Head(s)))

\* strtod(s, &endptr) on the decimal integer texts the documents use (at most
\* nine digits, no fraction or exponent part).
strtod(s) ==
  LET t == SkipSpace(s)
      signed == t # <<>> /\ Head(t) \in {"-", "+"}
      neg == t # <<>> /\ Head(t) = "-"
      u == IF signed THEN Tail(t) ELSE t
      n == DigitRun(u)
      v == SmallAcc(SubSeq(u, 1, n), 0)
  IN IF n = 0
       THEN [val |-> 0, endptr |-> s]
       ELSE [val |-> IF neg THEN 0 - v ELSE v, endptr |-> SubSeq(u, n + 1, Len(u))]

RECURSIVE strtok(_, _, _)
\* The tokens of s: its maximal runs of characters other than sep, in order
\* (apr_strtok skips empty tokens).  cur is the token being read.
strtok(s, sep, cur) ==
  IF s = <<>>
    THEN IF cur = <<>> THEN <<>> ELSE <<cur>>
    ELSE IF Head(s) = sep
           THEN IF cur = <<>> THEN strtok(Tail(s), sep, <<>>)
                              ELSE <<cur>> \o strtok(Tail(s), sep, <<>>)
           ELSE strtok(Tail(s), sep, Append(cur, Head(s)))

\* The list that starts with the conversion r of one token and goes on with
\* the list rest of the later tokens: a token that is not consumed whole ends
\* the list with a failure.
ExtractToken(r, rest) ==
  IF r.endptr # <<>>
    THEN [ok |-> FALSE, values |-> <<r.val>>]
    ELSE [ok |-> rest.ok, values |-> <<r.val>> \o rest.values]

RECURSIVE ExtractList(_, _)
\* Converts the tokens in order (strtol for "int", strtod for "double") and
\* stops with a failure at the first token that is not consumed whole.
ExtractList(toks, kind) ==
  IF toks = <<>>
    THEN [ok |-> TRUE, values |-> <<>>]
    ELSE ExtractToken(IF kind = "int" THEN strtol(Head(toks)) ELSE strtod(Head(toks)),
                      ExtractList(Tail(toks), kind))

\* geocache_util_extract_int_list(ctx, args, sep, &numbers, &count).
geocache_util_extract_int_list(args, sep) == ExtractList(strtok(args, sep, <<>>), "int")

\* geocache_util_extract_double_list(ctx, args, sep, &numbers, &count).
geocache_util_extract_double_list(args, sep) == ExtractList(strtok(args, sep, <<>>), "double")

\* ------------------------------------------------------------- the context

GEOCACHE_NO_ERROR == "GEOCACHE_NO_ERROR"

GEOCACHE_PARSE_ERROR == "GEOCACHE_PARSE_ERROR"

GEOCACHE_DISK_ERROR == "GEOCACHE_DISK_ERROR"

\* A fresh geocache_context: the error slot is empty.
geocache_context_create == [errcode |-> GEOCACHE_NO_ERROR, errmsg |-> "", errargs |-> <<>>]

\* ctx->set_error(ctx, code, fmt, ...): fills the slot with the code, the
\* format string (abridged) and its arguments.
set_error(ctx, code, msg, args) == [errcode |-> code, errmsg |-> msg, errargs |-> args]

GC_HAS_ERROR(ctx) == ctx.errcode # GEOCACHE_NO_ERROR

\* ------------------------------------------------------------ the entities

\* The null pointer to an entity.
NULL == [id |-> 0]

S_PNG == <<"P", "N", "G">>

S_PNG8 == <<"P", "N", "G", "8">>

S_JPEG == <<"J", "P", "E", "G">>

S_wms == <<"w", "m", "s">>

S_disk == <<"d", "i", "s", "k">>

S_fast == <<"f", "a", "s", "t">>

S_best == <<"b", "e", "s", "t">>

S_false == <<"f", "a", "l", "s", "e">>

S_default_lockdir == <<"/", "t", "m", "p", "/", "g", "e", "o", "c", "a", "c", "h", "e", "_", "l", "o", "c", "k", "s">>

\* The factories.  id is the identity of the object allocated (its address):
\* two entities are the same object exactly when their ids are equal.
geocache_imageio_create_png_format(id, name, compression) ==
  [id |-> id, name |-> name, type |-> "PNG", compression |-> compression,
   colors |-> -1, quality |-> -1]

geocache_imageio_create_png_q_format(id, name, compression, ncolors) ==
  [id |-> id, name |-> name, type |-> "PNG_Q", compression |-> compression,
   colors |-> ncolors, quality |-> -1]

geocache_imageio_create_jpeg_format(id, name, quality) ==
  [id |-> id, name |-> name, type |-> "JPEG", compression |-> "NONE",
   colors |-> -1, quality |-> quality]

geocache_source_wms_create(id) == [id |-> id, name |-> NullStr, type |-> "wms", srs |-> NullStr]

geocache_cache_disk_create(id) == [id |-> id, name |-> NullStr, type |-> "disk"]

geocache_tileset_create(id) ==
  [id |-> id, name |-> NullStr, cache |-> NULL, source |-> NULL, format |-> NULL,
   srs |-> NullStr, tile_sx |-> 256, tile_sy |-> 256, extent |-> <<0, 0, 0, 0>>,
   resolutions |-> <<>>, levels |-> 0, metasize_x |-> 1, metasize_y |-> 1,
   metabuffer |-> 0, expires |-> 0]

\* ------------------------------------------------------------ the registry

\* apr_hash_get(h, key): the value under key, or the null pointer.
apr_hash_get(h, key) == IF key \in DOMAIN h THEN h[key] ELSE NULL

\* apr_hash_set(h, key, val) with a non-null val: insert or overwrite.
apr_hash_set(h, key, val) == [k \in DOMAIN h \cup {key} |-> IF k = key THEN val ELSE h[k]]

apr_hash_make == [k \in {} |-> NULL]

\* A faulty lookup that finds no source, so that a second declaration of a
\* name is taken for the first.
geocache_configuration_get_source_none(config, key) == NULL

geocache_configuration_get_source(config, key) == apr_hash_get(config.sources, key)

geocache_configuration_get_cache(config, key) == apr_hash_get(config.caches, key)

\* A faulty lookup (the tileset looked for among the caches), to see that the
\* duplicate-name claim rests on the lookup.
geocache_configuration_get_tileset_in_caches(config, key) == apr_hash_get(config.caches, key)

geocache_configuration_get_tileset(config, key) == apr_hash_get(config.tilesets, key)

geocache_configuration_get_image_format(config, key) == apr_hash_get(config.image_formats, key)

geocache_configuration_add_source(config, source, key) ==
  [config EXCEPT !.sources = apr_hash_set(config.sources, key, source)]

geocache_configuration_add_tileset(config, tileset, key) ==
  [config EXCEPT !.tilesets = apr_hash_set(config.tilesets, key, tileset)]

geocache_configuration_add_cache(config, cache, key) ==
  [config EXCEPT !.caches = apr_hash_set(config.caches, key, cache)]

\* A faulty registration that keeps the format already under the key.
geocache_configuration_add_image_format_if_absent(config, format, key) ==
  IF key \in DOMAIN config.image_formats THEN config
  ELSE [config EXCEPT !.image_formats = apr_hash_set(config.image_formats, key, format)]

geocache_configuration_add_image_format(config, format, key) ==
  [config EXCEPT !.image_formats = apr_hash_set(config.image_formats, key, format)]

\* The identities of the three built-in formats.
BuiltinIds == {-1, -2, -3}

geocache_configuration_create ==
  LET cfg0 == [caches |-> apr_hash_make, sources |-> apr_hash_make,
               tilesets |-> apr_hash_make, image_formats |-> apr_hash_make,
               merge_format |-> NULL, lockdir |-> NullStr,
               services |-> [GEOCACHE_SERVICE_WMS |-> FALSE, GEOCACHE_SERVICE_TMS |-> FALSE]]
      cfg1 == geocache_configuration_add_image_format(cfg0,
                geocache_imageio_create_png_format(-1, S_PNG, "GEOCACHE_COMPRESSION_FAST"), S_PNG)
      cfg2 == geocache_configuration_add_image_format(cfg1,
                geocache_imageio_create_png_q_format(-2, S_PNG, "GEOCACHE_COMPRESSION_FAST", 256), S_PNG8)
      cfg3 == geocache_configuration_add_image_format(cfg2,
                geocache_imageio_create_jpeg_format(-3, S_JPEG, 95), S_JPEG)
  IN [cfg3 EXCEPT !.merge_format = geocache_configuration_get_image_format(cfg3, S_PNG),
                  !.lockdir = S_default_lockdir]

\* ------------------------------------------------------- the document tree

\* An element node: its tag, its attributes in order, its children in order
\* (elements with their text content, or text nodes), its own text content,
\* and how the variant's configuration_parse / configuration_check pair takes
\* the subtree ("ok", "parse_error" or "check_error").
Element(tag, attrs, children, content, variant) ==
  [type |-> "XML_ELEMENT_NODE", name |-> tag, properties |-> attrs,
   children |-> children, content |-> content, variant |-> variant]

\* A text or comment node among the children.
TextNode == [type |-> "XML_TEXT_NODE", name |-> "text", properties |-> <<>>,
             children |-> <<>>, content |-> <<" ">>, variant |-> "ok"]

Attr(n, v) == [name |-> n, value |-> v]

Child(tag, content) == Element(tag, <<>>, <<>>, content, "ok")

RECURSIVE LastAttr(_, _, _)
\* The value of the last attribute called key, or dflt.
LastAttr(attribute, key, dflt) ==
  IF attribute = <<>> THEN dflt
  ELSE LastAttr(Tail(attribute), key,
                IF Head(attribute).name = key THEN Head(attribute).value ELSE dflt)

extractNameAndTypeAttributes(attribute) ==
  LET name == LastAttr(attribute, "name", NullStr)
      type == LastAttr(attribute, "type", NullStr)
  IN [name |-> name, type |-> type,
      rv |-> IF name # NullStr /\ type # NullStr THEN "GEOCACHE_SUCCESS" ELSE "GEOCACHE_FAILURE"]

\* !s || !strlen(s)
Missing(s) == s = NullStr \/ strlen(s) = 0

\* What a parser hands back: the context and the configuration as it leaves them.
Ret(ctx, config) == [ctx |-> ctx, config |-> config]

\* ---------------------------------------------------------- parseSource

RECURSIVE SourceChildren(_, _)
\* The loop over the children of a <source>: the last <srs> sets source->srs.
SourceChildren(children, source) ==
  IF children = <<>> THEN source
  ELSE LET cur_node == Head(children)
       IN SourceChildren(Tail(children),
            IF cur_node.type = "XML_ELEMENT_NODE" /\ cur_node.name = "srs"
              THEN [source EXCEPT !.srs = cur_node.content]
              ELSE source)

\* source->configuration_parse(ctx, node, source) then, if that left no error,
\* source->configuration_check(ctx, source); the same pair for a cache.
VariantConfigure(ctx, node, name) ==
  IF node.variant = "parse_error"
    THEN set_error(ctx, GEOCACHE_PARSE_ERROR, "configuration_parse failed", <<name>>)
    ELSE IF node.variant = "check_error"
      THEN set_error(ctx, GEOCACHE_PARSE_ERROR, "configuration_check failed", <<name>>)
      ELSE ctx

parseSource(ctx, node, config, id) ==
  IF node.name # "source"
    THEN Ret(set_error(ctx, GEOCACHE_PARSE_ERROR, "SEVERE: found tag instead of <source>", <<node.name>>), config)
  ELSE
  LET a == extractNameAndTypeAttributes(node.properties)
      name == a.name
      type == a.type
  IN IF Missing(name)
       THEN Ret(set_error(ctx, GEOCACHE_PARSE_ERROR, "mandatory attribute name not found in <source>", <<>>), config)
     ELSE IF geocache_configuration_get_source(config, name) # NULL
       THEN Ret(set_error(ctx, GEOCACHE_PARSE_ERROR, "duplicate source with name", <<name>>), config)
     ELSE IF Missing(type)
       THEN Ret(set_error(ctx, GEOCACHE_PARSE_ERROR, "mandatory attribute type not found in <source>", <<>>), config)
     ELSE IF type # S_wms
       THEN Ret(set_error(ctx, GEOCACHE_PARSE_ERROR, "unknown source type", <<type, name>>), config)
     ELSE
     LET created == geocache_source_wms_create(id)
     IN IF created = NULL
          THEN Ret(set_error(ctx, GEOCACHE_PARSE_ERROR, "failed to parse source", <<name>>), config)
        ELSE
        LET source == SourceChildren(node.children, [created EXCEPT !.name = name])
            ctx1 == VariantConfigure(ctx, node, name)
        IN IF GC_HAS_ERROR(ctx1)
             THEN Ret(ctx1, config)
             ELSE Ret(ctx1, geocache_configuration_add_source(config, source, name))

\* ----------------------------------------------------------- parseCache

parseCache(ctx, node, config, id) ==
  IF node.name # "cache"
    THEN Ret(set_error(ctx, GEOCACHE_PARSE_ERROR, "SEVERE: is not a cache tag", <<node.name>>), config)
  ELSE
  LET a == extractNameAndTypeAttributes(node.properties)
      name == a.name
      type == a.type
  IN IF Missing(name)
       THEN Ret(set_error(ctx, GEOCACHE_PARSE_ERROR, "mandatory attribute name not found in <cache>", <<>>), config)
     ELSE IF geocache_configuration_get_cache(config, name) # NULL
       THEN Ret(set_error(ctx, GEOCACHE_PARSE_ERROR, "duplicate cache with name", <<name>>), config)
     ELSE IF Missing(type)
       THEN Ret(set_error(ctx, GEOCACHE_PARSE_ERROR, "mandatory attribute type not found in <cache>", <<>>), config)
     ELSE IF type # S_disk
       THEN Ret(set_error(ctx, GEOCACHE_PARSE_ERROR, "unknown cache type", <<type, name>>), config)
     ELSE
     LET created == geocache_cache_disk_create(id)
     IN IF created = NULL
          THEN Ret(set_error(ctx, GEOCACHE_PARSE_ERROR, "failed to parse cache", <<name>>), config)
        ELSE
        LET cache == [created EXCEPT !.name = name]
            ctx1 == VariantConfigure(ctx, node, name)
        IN IF GC_HAS_ERROR(ctx1)
             THEN Ret(ctx1, config)
             ELSE Ret(ctx1, geocache_configuration_add_cache(config, cache, name))

\* ---------------------------------------------------------- parseFormat

RECURSIVE PngChildren(_, _, _)
\* The loop over the children of a format of type PNG.  st holds ctx,
\* compression and colors; returned is set when the loop returned from
\* parseFormat with an error.
PngChildren(children, name, st) ==
  IF children = <<>> THEN st
  ELSE
  LET cur_node == Head(children)
      value == cur_node.content
  IN IF cur_node.type # "XML_ELEMENT_NODE"
       THEN PngChildren(Tail(children), name, st)
     ELSE IF cur_node.name = "compression"
       THEN IF value = S_fast
              THEN PngChildren(Tail(children), name, [st EXCEPT !.compression = "GEOCACHE_COMPRESSION_FAST"])
            ELSE IF value = S_best
              THEN PngChildren(Tail(children), name, [st EXCEPT !.compression = "GEOCACHE_COMPRESSION_BEST"])
            ELSE [st EXCEPT !.returned = TRUE,
                            !.ctx = set_error(st.ctx, GEOCACHE_PARSE_ERROR, "unknown compression type", <<value, name>>)]
     ELSE IF cur_node.name = "colors"
       THEN LET r == strtol(value)
                colors == r.val
            IN IF r.endptr # <<>> \/ colors < 2 \/ colors > 256
                 THEN [st EXCEPT !.returned = TRUE, !.colors = colors,
                                 !.ctx = set_error(st.ctx, GEOCACHE_PARSE_ERROR, "failed to parse colors", <<value, name>>)]
                 ELSE PngChildren(Tail(children), name, [st EXCEPT !.colors = colors])
     ELSE [st EXCEPT !.returned = TRUE,
                     !.ctx = set_error(st.ctx, GEOCACHE_PARSE_ERROR, "unknown tag for format", <<cur_node.name, name>>)]

RECURSIVE JpegChildren(_, _, _)
\* The loop over the children of a format of type JPEG: only <quality> is
\* looked at, every other child is passed over.
JpegChildren(children, name, st) ==
  IF children = <<>> THEN st
  ELSE
  LET cur_node == Head(children)
      value == cur_node.content
  IN IF cur_node.type # "XML_ELEMENT_NODE"
       THEN JpegChildren(Tail(children), name, st)
     ELSE IF cur_node.name = "quality"
       THEN LET r == strtol(value)
                quality == r.val
            IN IF r.endptr # <<>> \/ quality < 1 \/ quality > 100
                 THEN [st EXCEPT !.returned = TRUE, !.quality = quality,
                                 !.ctx = set_error(st.ctx, GEOCACHE_PARSE_ERROR, "failed to parse quality", <<value, name>>)]
                 ELSE JpegChildren(Tail(children), name, [st EXCEPT !.quality = quality])
     ELSE JpegChildren(Tail(children), name, st)

parseFormat(ctx, node, config, id) ==
  LET \* a wrong tag sets the error and parsing goes on (no return, line 157)
      ctx0 == IF node.name # "format"
                THEN set_error(ctx, GEOCACHE_PARSE_ERROR, "SEVERE: is not a format tag", <<node.name>>)
                ELSE ctx
      a == extractNameAndTypeAttributes(node.properties)
      name == a.name
      type == a.type
  IN IF Missing(name)
       THEN Ret(set_error(ctx0, GEOCACHE_PARSE_ERROR, "mandatory attribute name not found in <format>", <<>>), config)
     ELSE IF Missing(type)
       THEN Ret(set_error(ctx0, GEOCACHE_PARSE_ERROR, "mandatory attribute type not found in <format>", <<>>), config)
     ELSE
     LET png == PngChildren(node.children, name,
                  [ctx |-> ctx0, returned |-> FALSE, colors |-> -1,
                   compression |-> "GEOCACHE_COMPRESSION_DEFAULT"])
         jpeg == JpegChildren(node.children, name,
                  [ctx |-> ctx0, returned |-> FALSE, quality |-> 95])
     IN IF type = S_PNG
          THEN IF png.returned THEN Ret(png.ctx, config)
               ELSE LET format == IF png.colors = -1
                                    THEN geocache_imageio_create_png_format(id, name, png.compression)
                                    ELSE geocache_imageio_create_png_q_format(id, name, png.compression, png.colors)
                    IN IF format = NULL
                         THEN Ret(set_error(png.ctx, GEOCACHE_PARSE_ERROR, "failed to parse format", <<name>>), config)
                         ELSE Ret(png.ctx, geocache_configuration_add_image_format(config, format, name))
        ELSE IF type = S_JPEG
          THEN IF jpeg.returned THEN Ret(jpeg.ctx, config)
               ELSE LET format == geocache_imageio_create_jpeg_format(id, name, jpeg.quality)
                    IN IF format = NULL
                         THEN Ret(set_error(jpeg.ctx, GEOCACHE_PARSE_ERROR, "failed to parse format", <<name>>), config)
                         ELSE Ret(jpeg.ctx, geocache_configuration_add_image_format(config, format, name))
        ELSE Ret(set_error(ctx0, GEOCACHE_PARSE_ERROR, "unknown format type", <<type, name>>), config)

\* --------------------------------------------------------- parseTileset

\* The tileset loop left parseTileset with this error.
TsFail(st, msg, args) ==
  [st EXCEPT !.returned = TRUE, !.ctx = set_error(st.ctx, GEOCACHE_PARSE_ERROR, msg, args)]

\* Lines 309-318: a <cache> child with text value.
TilesetCache(st, name, config, value) ==
  LET cache == geocache_configuration_get_cache(config, value)
  IN IF cache = NULL
       THEN TsFail(st, "tileset references cache, but it is not configured", <<name, value>>)
       ELSE [st EXCEPT !.tileset.cache = cache]

\* A faulty <source> branch that stores the lookup's result unchecked.
TilesetSource_unchecked(st, name, config, value) ==
  [st EXCEPT !.tileset.source = geocache_configuration_get_source(config, value)]

\* Lines 319-328: a <source> child with text value.
TilesetSource(st, name, config, value) ==
  LET source == geocache_configuration_get_source(config, value)
  IN IF source = NULL
       THEN TsFail(st, "tileset references source, but it is not configured", <<name, value>>)
       ELSE [st EXCEPT !.tileset.source = source]

\* Lines 415-424: a <format> child with text value.
TilesetFormat(st, name, config, value) ==
  LET format == geocache_configuration_get_image_format(config, value)
  IN IF format = NULL
       THEN TsFail(st, "tileset references format, but it is not configured", <<name, value>>)
       ELSE [st EXCEPT !.tileset.format = format]

\* Lines 329-414: a child that holds text or numbers, given what the value
\* reads as: ints and doubles as a list, num through strtol.
TilesetStore(st, tag, value, ints, doubles, num) ==
     IF tag = "srs" THEN [st EXCEPT !.tileset.srs = value]
     ELSE IF tag = "size"
       THEN IF ~ints.ok \/ Len(ints.values) # 2
              THEN TsFail(st, "failed to parse size array", <<value>>)
              ELSE [st EXCEPT !.tileset.tile_sx = ints.values[1], !.tileset.tile_sy = ints.values[2]]
     ELSE IF tag = "extent"
       THEN IF ~doubles.ok \/ Len(doubles.values) # 4
              \* the message also prints values[0..3], whatever the list holds
              THEN TsFail(st, "failed to parse extent array", <<value>>)
              ELSE [st EXCEPT !.tileset.extent = doubles.values]
     ELSE IF tag = "resolutions"
       THEN IF ~doubles.ok \/ Len(doubles.values) = 0
              THEN TsFail(st, "failed to parse resolutions array", <<value>>)
              ELSE [st EXCEPT !.tileset.resolutions = doubles.values,
                              !.tileset.levels = Len(doubles.values)]
     ELSE IF tag = "metatile"
       THEN IF ~ints.ok \/ Len(ints.values) # 2
              THEN TsFail(st, "failed to parse metatile dimension", <<value>>)
              ELSE [st EXCEPT !.tileset.metasize_x = ints.values[1], !.tileset.metasize_y = ints.values[2]]
     ELSE IF tag = "expires"
       THEN IF num.endptr # <<>>
              THEN TsFail([st EXCEPT !.tileset.expires = num.val], "failed to parse expires", <<value>>)
              ELSE [st EXCEPT !.tileset.expires = num.val]
     ELSE IF tag = "metabuffer"
       THEN IF num.endptr # <<>>
              THEN TsFail([st EXCEPT !.tileset.metabuffer = num.val], "failed to parse metabuffer", <<value>>)
              ELSE [st EXCEPT !.tileset.metabuffer = num.val]
     ELSE st

\* Lines 329-414: a child that holds text or numbers.
TilesetValue(st, tag, value) ==
  TilesetStore(st, tag, value,
               geocache_util_extract_int_list(value, " "),
               geocache_util_extract_double_list(value, " "),
               strtol(value))

\* The body of the loop over the children of a <tileset> (lines 308-425) on
\* the child cur_node.  Children with any other tag are passed over.
TilesetChild(cur_node, name, config, st) ==
  IF cur_node.type # "XML_ELEMENT_NODE" THEN st
  ELSE IF cur_node.name = "cache" THEN TilesetCache(st, name, config, cur_node.content)
  ELSE IF cur_node.name = "source" THEN TilesetSource(st, name, config, cur_node.content)
  ELSE IF cur_node.name = "format" THEN TilesetFormat(st, name, config, cur_node.content)
  ELSE TilesetValue(st, cur_node.name, cur_node.content)

RECURSIVE TilesetChildren(_, _, _, _)
\* The loop over the children of a <tileset> (lines 307-426).  st holds ctx
\* and the tileset being filled; returned is set when the body returned from
\* parseTileset with an error, and then no later child is looked at.
TilesetChildren(children, name, config, st) ==
  IF children = <<>> \/ st.returned THEN st
  ELSE TilesetChildren(Tail(children), name, config, TilesetChild(Head(children), name, config, st))

\* A faulty backfill that gives every tileset without a format the merge format.
BackfillFormat_always(tileset, config) ==
  IF tileset.format = NULL THEN [tileset EXCEPT !.format = config.merge_format] ELSE tileset

\* A faulty backfill that wants the metatile and the metabuffer all changed.
BackfillFormat_all(tileset, config) ==
  IF tileset.format = NULL /\ (tileset.metasize_x # 1 /\ tileset.metasize_y # 1 /\ tileset.metabuffer # 0)
    THEN [tileset EXCEPT !.format = config.merge_format]
    ELSE tileset

\* The format a tileset is registered with (lines 455-460): one that named
\* no format and is metatiled or buffered gets the current merge format.
BackfillFormat(tileset, config) ==
  IF tileset.format = NULL /\ (tileset.metasize_x # 1 \/ tileset.metasize_y # 1 \/ tileset.metabuffer # 0)
    THEN [tileset EXCEPT !.format = config.merge_format]
    ELSE tileset

\* Faulty checks after the loop: the extent is refused only when it is flat
\* on both axes.
TilesetCheck_both_axes(tileset) ==
  IF tileset.cache = NULL THEN "tileset has no cache configured"
  ELSE IF tileset.source = NULL THEN "tileset has no source configured"
  ELSE IF tileset.srs = NullStr THEN "tileset has no srs configured"
  ELSE IF tileset.extent[1] = tileset.extent[3] /\ tileset.extent[2] = tileset.extent[4]
    THEN "tileset has no (or invalid) extent configured"
  ELSE IF tileset.levels = 0 THEN "tileset has no resolutions configured"
  ELSE ""

\* The checks after the loop (lines 427-454): the message of the first one
\* that fails, or "" when the tileset passes them all.
TilesetCheck(tileset) ==
  IF tileset.cache = NULL THEN "tileset has no cache configured"
  ELSE IF tileset.source = NULL THEN "tileset has no source configured"
  ELSE IF tileset.srs = NullStr THEN "tileset has no srs configured"
  ELSE IF tileset.extent[1] = tileset.extent[3] \/ tileset.extent[2] = tileset.extent[4]
    THEN "tileset has no (or invalid) extent configured"
  ELSE IF tileset.levels = 0 THEN "tileset has no resolutions configured"
  ELSE ""

\* Lines 427-463: what parseTileset does once the loop has ended in st.
TilesetRegister(st, failed, config, name) ==
  IF st.returned THEN Ret(st.ctx, config)
  ELSE IF failed # ""
    THEN Ret(set_error(st.ctx, GEOCACHE_PARSE_ERROR, failed, <<st.tileset.name>>), config)
  ELSE Ret(st.ctx, geocache_configuration_add_tileset(config, BackfillFormat(st.tileset, config), name))

\* The checks and the registration applied to the loop's outcome.
TilesetLooped(st, config, name) == TilesetRegister(st, TilesetCheck(st.tileset), config, name)

parseTileset(ctx, node, config, id) ==
  IF node.name # "tileset"
    THEN Ret(set_error(ctx, GEOCACHE_PARSE_ERROR, "SEVERE: is not a tileset tag", <<node.name>>), config)
  ELSE
  LET a == extractNameAndTypeAttributes(node.properties)
      name == a.name
  IN IF Missing(name)
       THEN Ret(set_error(ctx, GEOCACHE_PARSE_ERROR, "mandatory attribute name not found in <tileset>", <<>>), config)
     ELSE IF geocache_configuration_get_tileset(config, name) # NULL
       THEN Ret(set_error(ctx, GEOCACHE_PARSE_ERROR, "duplicate tileset with name", <<name>>), config)
     ELSE
     LET created == [geocache_tileset_create(id) EXCEPT !.name = name]
     IN TilesetLooped(TilesetChildren(node.children, name, config,
                        [ctx |-> ctx, returned |-> FALSE, tileset |-> created]),
                      config, name)

\* ------------------------------------------------------------ the state

VARIABLES
  pc,      \* where geocache_configuration_parse is
  doc,     \* the top-level children of the root read so far, in document order
  ctx,     \* the geocache_context: the error slot
  config,  \* the geocache_cfg being filled
  probe    \* what the file system answered to the lock-directory probe

vars == <<pc, doc, ctx, config, probe>>

\* cur_node of the top-level loop: the child read last.
cur_node == doc[Len(doc)]

\* The identity of the entity the parser of the child being read allocates.
NewId == Len(doc) + 1

Init ==
  /\ pc = "INIT"
  /\ doc = <<>>
  /\ ctx = geocache_context_create
  /\ config = geocache_configuration_create
  /\ probe = "none"

\* A faulty GC_CHECK_ERROR that never returns, to see that the fail-fast
\* claim rests on the check.
GC_CHECK_ERROR_goes_on(c) == "WALK_TOP_LEVEL"

\* GC_CHECK_ERROR(ctx) after a parser call in the loop: return on an error,
\* else go on to the next child.
GC_CHECK_ERROR(c) == IF GC_HAS_ERROR(c) THEN "FAILED" ELSE "WALK_TOP_LEVEL"

\* Lines 471-479 and 538-544: xmlReadFile and the check of the root element.
Start ==
  /\ pc = "INIT"
  /\ \E readable \in BOOLEAN, root \in {"geocache", "html"} :
       IF ~readable
         THEN /\ ctx' = set_error(ctx, GEOCACHE_PARSE_ERROR, "libxml2 failed to parse file", <<>>)
              /\ pc' = "FAILED"
       ELSE IF root # "geocache"
         THEN /\ ctx' = set_error(ctx, GEOCACHE_PARSE_ERROR, "document does not begin with <geocache> tag", <<root>>)
              /\ pc' = "FAILED"
       ELSE /\ ctx' = ctx
            /\ pc' = "WALK_TOP_LEVEL"
  /\ UNCHANGED <<doc, config, probe>>

\* The loop reads one more child, node.
Read(node) ==
  /\ pc = "WALK_TOP_LEVEL"
  /\ Len(doc) < MaxDoc
  /\ doc' = Append(doc, node)
  /\ probe' = probe

\* What the loop body does with the result r of a parser call.
Called(r) ==
  /\ ctx' = r.ctx
  /\ config' = r.config
  /\ pc' = GC_CHECK_ERROR(r.ctx)

\* Line 483: a child that is no element is passed over.
DispatchSkip(node) ==
  /\ node.type # "XML_ELEMENT_NODE"
  /\ Read(node)
  /\ UNCHANGED <<ctx, config, pc>>

DispatchSource(node) ==
  /\ node.type = "XML_ELEMENT_NODE" /\ node.name = "source"
  /\ Read(node)
  /\ Called(parseSource(ctx, node, config, NewId))

DispatchCache(node) ==
  /\ node.type = "XML_ELEMENT_NODE" /\ node.name = "cache"
  /\ Read(node)
  /\ Called(parseCache(ctx, node, config, NewId))

DispatchFormat(node) ==
  /\ node.type = "XML_ELEMENT_NODE" /\ node.name = "format"
  /\ Read(node)
  /\ Called(parseFormat(ctx, node, config, NewId))

DispatchTileset(node) ==
  /\ node.type = "XML_ELEMENT_NODE" /\ node.name = "tileset"
  /\ Read(node)
  /\ Called(parseTileset(ctx, node, config, NewId))

\* A faulty test that enables a service whatever its text.
ServiceEnabled_always(value) == TRUE

\* !value || !*value || xmlStrcmp(value, "false")
ServiceEnabled(value) == value = NullStr \/ value = <<>> \/ value # S_false

RECURSIVE ServiceChildren(_, _)
\* Lines 500-515: the loop over the children of <services>.
ServiceChildren(children, services) ==
  IF children = <<>> THEN services
  ELSE
  LET service_node == Head(children)
      value == service_node.content
  IN IF service_node.type # "XML_ELEMENT_NODE"
       THEN ServiceChildren(Tail(children), services)
     ELSE IF service_node.name = "wms"
       THEN ServiceChildren(Tail(children),
              IF ServiceEnabled(value) THEN [services EXCEPT !.GEOCACHE_SERVICE_WMS = TRUE] ELSE services)
     ELSE IF service_node.name = "tms"
       THEN ServiceChildren(Tail(children),
              IF ServiceEnabled(value) THEN [services EXCEPT !.GEOCACHE_SERVICE_TMS = TRUE] ELSE services)
     ELSE ServiceChildren(Tail(children), services)

DispatchServices(node) ==
  /\ node.type = "XML_ELEMENT_NODE" /\ node.name = "services"
  /\ Read(node)
  /\ config' = [config EXCEPT !.services = ServiceChildren(node.children, config.services)]
  /\ UNCHANGED <<ctx, pc>>

\* Lines 516-525.
DispatchMergeFormat(node) ==
  /\ node.type = "XML_ELEMENT_NODE" /\ node.name = "merge_format"
  /\ Read(node)
  /\ LET value == node.content
         format == geocache_configuration_get_image_format(config, value)
     IN IF format = NULL
          THEN /\ ctx' = set_error(ctx, GEOCACHE_PARSE_ERROR, "merge_format tag references format but it is not configured", <<value>>)
               /\ pc' = "FAILED"
               /\ config' = config
          ELSE /\ config' = [config EXCEPT !.merge_format = format]
               /\ UNCHANGED <<ctx, pc>>

\* Lines 526-529.
DispatchLockDir(node) ==
  /\ node.type = "XML_ELEMENT_NODE" /\ node.name = "lock_dir"
  /\ Read(node)
  /\ config' = [config EXCEPT !.lockdir = node.content]
  /\ UNCHANGED <<ctx, pc>>

TopLevelTags == {"source", "cache", "format", "tileset", "services", "merge_format", "lock_dir"}

\* Lines 530-534: any other top-level tag.
DispatchUnknown(node) ==
  /\ node.type = "XML_ELEMENT_NODE" /\ node.name \notin TopLevelTags
  /\ Read(node)
  /\ ctx' = set_error(ctx, GEOCACHE_PARSE_ERROR, "failed to parse geocache config file: unknown tag", <<node.name>>)
  /\ pc' = "FAILED"
  /\ config' = config

\* The loop ends: cur_node is null, the document has no more children.
EndWalk ==
  /\ pc = "WALK_TOP_LEVEL"
  /\ pc' = "POSTCHECK_LOCKDIR"
  /\ UNCHANGED <<doc, ctx, config, probe>>

\* A faulty probe that reports its failures as parse errors.
ProbeLockdir_parse_error ==
  /\ pc = "POSTCHECK_LOCKDIR"
  /\ \E answer \in {"ok", "mkdir_failed", "open_failed"} :
       /\ probe' = answer
       /\ IF answer # "ok"
            THEN /\ ctx' = set_error(ctx, GEOCACHE_PARSE_ERROR, "failed to create lock directory", <<config.lockdir>>)
                 /\ pc' = "FAILED"
            ELSE /\ ctx' = ctx
                 /\ pc' = "POSTCHECK_SERVICES"
  /\ UNCHANGED <<doc, config>>

\* Lines 546-558: apr_dir_make_recursive, then apr_file_open of test.lock in
\* config->lockdir; the file system answers either way.
ProbeLockdir ==
  /\ pc = "POSTCHECK_LOCKDIR"
  /\ \E answer \in {"ok", "mkdir_failed", "open_failed"} :
       /\ probe' = answer
       /\ IF answer = "mkdir_failed"
            THEN /\ ctx' = set_error(ctx, GEOCACHE_DISK_ERROR, "failed to create lock directory", <<config.lockdir>>)
                 /\ pc' = "FAILED"
          ELSE IF answer = "open_failed"
            THEN /\ ctx' = set_error(ctx, GEOCACHE_DISK_ERROR, "failed to create test lockfile", <<config.lockdir>>)
                 /\ pc' = "FAILED"
          ELSE /\ ctx' = ctx
               /\ pc' = "POSTCHECK_SERVICES"
  /\ UNCHANGED <<doc, config>>

\* Lines 560-571.
CheckServices ==
  /\ pc = "POSTCHECK_SERVICES"
  /\ IF ~config.services.GEOCACHE_SERVICE_WMS /\ ~config.services.GEOCACHE_SERVICE_TMS
       THEN /\ ctx' = set_error(ctx, GEOCACHE_PARSE_ERROR, "no services configured", <<>>)
            /\ pc' = "FAILED"
       ELSE /\ ctx' = ctx
            /\ pc' = "DONE"
  /\ UNCHANGED <<doc, config, probe>>

\* The documents follow the schema in this much: at most one <services>, one
\* <merge_format> and one <lock_dir> element, and at most MaxText children
\* that are no elements.
Admissible(node) ==
  /\ node.type # "XML_ELEMENT_NODE" =>
       Cardinality({i \in 1..Len(doc) : doc[i].type # "XML_ELEMENT_NODE"}) < MaxText
  /\ (node.type = "XML_ELEMENT_NODE" /\ node.name \in {"services", "merge_format", "lock_dir"}) =>
       \A i \in 1..Len(doc) : doc[i].name # node.name

\* One step of the top-level loop on a child drawn from the set Pool.
Walk(Pool) ==
  \E node \in {n \in Pool : Admissible(n)} :
    \/ DispatchSkip(node)
    \/ DispatchSource(node)
    \/ DispatchCache(node)
    \/ DispatchFormat(node)
    \/ DispatchTileset(node)
    \/ DispatchServices(node)
    \/ DispatchMergeFormat(node)
    \/ DispatchLockDir(node)
    \/ DispatchUnknown(node)

\* The same step on the documents made of declarations, <services> and
\* <merge_format> only.
WalkDeclarations(Pool) ==
  \E node \in {n \in Pool : Admissible(n)} :
    \/ DispatchSource(node)
    \/ DispatchCache(node)
    \/ DispatchFormat(node)
    \/ DispatchTileset(node)
    \/ DispatchServices(node)
    \/ DispatchMergeFormat(node)

\* -------------------------------------------------------- the documents

S_diskcache == <<"d", "i", "s", "k", "c", "a", "c", "h", "e">>

S_wms1 == <<"w", "m", "s", "1">>

S_t1 == <<"t", "1">>

S_t2 == <<"t", "2">>

S_epsg4326 == <<"E", "P", "S", "G", ":", "4", "3", "2", "6">>

S_epsg3857 == <<"E", "P", "S", "G", ":", "3", "8", "5", "7">>

S_256_256 == <<"2", "5", "6", " ", "2", "5", "6">>

S_world == <<"-", "1", "8", "0", " ", "-", "9", "0", " ", "1", "8", "0", " ", "9", "0">>

S_1_2_4_8 == <<"1", " ", "2", " ", "4", " ", "8">>

S_absent == <<"n", "o", "n", "e">>

NameType(n, t) == <<Attr("name", n), Attr("type", t)>>

\* <format name="PNG" type="PNG"/>
FmtPNG == Element("format", NameType(S_PNG, S_PNG), <<>>, <<>>, "ok")

\* <cache name="diskcache" type="disk">
CacheDisk == Element("cache", NameType(S_diskcache, S_disk), <<TextNode>>, <<>>, "ok")

\* <cache name="diskcache" type="mem">: a second diskcache, of an unknown type.
CacheDiskMem == Element("cache", NameType(S_diskcache, <<"m", "e", "m">>), <<>>, <<>>, "ok")

\* A disk cache that its configuration_check rejects.
CacheUnchecked == Element("cache", NameType(<<"c", "2">>, S_disk), <<>>, <<>>, "check_error")

\* <source name="wms1" type="wms"><srs>EPSG:4326</srs>
SrcWms1 == Element("source", NameType(S_wms1, S_wms), <<TextNode, Child("srs", S_epsg4326)>>, <<>>, "ok")

\* Another source called wms1, with another srs.
SrcWms1Other == Element("source", NameType(S_wms1, S_wms), <<Child("srs", S_epsg3857)>>, <<>>, "ok")

\* A wms source that its configuration_parse rejects.
SrcUnparsed == Element("source", NameType(<<"s", "2">>, S_wms), <<>>, <<>>, "parse_error")

\* <source type="wms">: no name.
SrcNoName == Element("source", <<Attr("type", S_wms)>>, <<>>, <<>>, "ok")

\* The children of a valid tileset on diskcache and wms1.
TsRefs == <<Child("cache", S_diskcache), TextNode, Child("source", S_wms1)>>

TsSrs == <<Child("srs", S_epsg4326)>>

TsSize == <<Child("size", S_256_256)>>

TsExtent == <<Child("extent", S_world)>>

TsRes == <<Child("resolutions", S_1_2_4_8)>>

Tileset(n, children) == Element("tileset", NameType(n, <<"x">>), children, <<>>, "ok")

\* The tileset t1 of the end-to-end document.
TsT1 == Tileset(S_t1, TsRefs \o TsSrs \o TsSize \o TsExtent \o TsRes)

\* Another tileset called t1, on a cache that no document declares.
TsT1NoSuchCache ==
  Tileset(S_t1, <<Child("cache", S_absent), Child("source", S_wms1)>> \o TsSrs \o TsExtent \o TsRes)

TsNoSuchSource ==
  Tileset(S_t2, <<Child("cache", S_diskcache), Child("source", S_absent)>> \o TsSrs \o TsExtent \o TsRes)

TsNoSuchFormat ==
  Tileset(S_t2, TsRefs \o TsSrs \o TsExtent \o TsRes \o <<Child("format", S_absent)>>)

TsNoCacheTag == Tileset(S_t2, <<Child("source", S_wms1)>> \o TsSrs \o TsExtent \o TsRes)

TsNoSourceTag == Tileset(S_t2, <<Child("cache", S_diskcache)>> \o TsSrs \o TsExtent \o TsRes)

TsNoSrs == Tileset(S_t2, TsRefs \o TsExtent \o TsRes)

TsNoExtent == Tileset(S_t2, TsRefs \o TsSrs \o TsSize \o TsRes)

\* extent[0] = extent[2]
TsFlatX ==
  Tileset(S_t2, TsRefs \o TsSrs \o <<Child("extent", <<"5", " ", "0", " ", "5", " ", "9">>)>> \o TsRes)

\* extent[1] = extent[3]
TsFlatY ==
  Tileset(S_t2, TsRefs \o TsSrs \o <<Child("extent", <<"0", " ", "7", " ", "9", " ", "7">>)>> \o TsRes)

TsNoRes == Tileset(S_t2, TsRefs \o TsSrs \o TsExtent)

\* <resolutions></resolutions>
TsEmptyRes == Tileset(S_t2, TsRefs \o TsSrs \o TsExtent \o <<Child("resolutions", <<>>)>>)

\* <services><wms/><tms>false</tms><kml/></services>
SvcWms ==
  Element("services", <<>>, <<TextNode, Child("wms", <<>>), Child("tms", S_false), Child("kml", <<>>)>>, <<>>, "ok")

\* <services><wms>false</wms></services>
SvcWmsFalse == Element("services", <<>>, <<Child("wms", S_false)>>, <<>>, "ok")

\* <merge_format>none</merge_format>
MergeAbsent == Element("merge_format", <<>>, <<>>, S_absent, "ok")

\* <lock_dir>/l</lock_dir>
LockDir == Element("lock_dir", <<>>, <<>>, <<"/", "l">>, "ok")

\* <foo/>
Unknown == Element("foo", <<>>, <<>>, <<>>, "ok")

\* The top-level children the documents are made of.
Nodes ==
  {FmtPNG, CacheDisk, CacheDiskMem, CacheUnchecked, SrcWms1, SrcWms1Other, SrcUnparsed,
   SrcNoName, TsT1, TsT1NoSuchCache, TsNoSuchSource, TsNoSuchFormat, TsNoCacheTag,
   TsNoSourceTag, TsNoSrs, TsNoExtent, TsFlatX, TsFlatY, TsNoRes, TsEmptyRes,
   SvcWms, SvcWmsFalse, MergeAbsent, LockDir, Unknown, TextNode}

S_metatiled == <<"m">>

S_f == <<"f">>

TsComplete == TsRefs \o TsSrs \o TsExtent \o TsRes

\* A tileset with <metatile>2 2</metatile> and no format.
TsMeta == Tileset(S_metatiled, TsComplete \o <<Child("metatile", <<"2", " ", "2">>)>>)

\* The same tileset with <metabuffer>1</metabuffer> instead.
TsBuf == Tileset(S_metatiled, TsComplete \o <<Child("metabuffer", <<"1">>)>>)

\* The same tileset, metatiled and with <format>JPEG</format>.
TsJpeg ==
  Tileset(S_metatiled, <<Child("format", S_JPEG), Child("metatile", <<"2", " ", "2">>)>> \o TsComplete)

\* <format name="f" type="PNG"><compression>best</compression><colors>16</colors>
FmtF ==
  Element("format", NameType(S_f, S_PNG),
          <<Child("compression", S_best), TextNode, Child("colors", <<"1", "6">>)>>, <<>>, "ok")

\* <format name="f" type="JPEG"><quality>80</quality><compression>fast</compression>
FmtJpegStray ==
  Element("format", NameType(S_f, S_JPEG),
          <<Child("quality", <<"8", "0">>), Child("compression", S_fast)>>, <<>>, "ok")

\* <format name="g" type="PNG"><quality>80</quality>
FmtPngStray ==
  Element("format", NameType(<<"g">>, S_PNG), <<Child("quality", <<"8", "0">>)>>, <<>>, "ok")

\* <merge_format>JPEG</merge_format>
MergeJPEG == Element("merge_format", <<>>, <<>>, S_JPEG, "ok")

\* <merge_format>f</merge_format>
MergeF == Element("merge_format", <<>>, <<>>, S_f, "ok")

\* The top-level children of the documents about formats.
FormatNodes ==
  {CacheDisk, SrcWms1, TsT1, TsMeta, TsBuf, TsJpeg, FmtPNG, FmtF, FmtJpegStray, FmtPngStray,
   MergeJPEG, MergeF, SvcWms}

S_q == <<"q">>

\* <format name="f" type="PNG"><colors>text</colors>
FmtColors(text) == Element("format", NameType(S_f, S_PNG), <<Child("colors", text)>>, <<>>, "ok")

\* <format name="q" type="JPEG"><quality>text</quality>
FmtQuality(text) == Element("format", NameType(S_q, S_JPEG), <<Child("quality", text)>>, <<>>, "ok")

\* 2^32 + 2 and 2^32 + 100: as a 64-bit long they are themselves, as an int
\* they are 2 and 100.
S_wraps_to_2 == <<"4", "2", "9", "4", "9", "6", "7", "2", "9", "8">>

S_wraps_to_100 == <<"4", "2", "9", "4", "9", "6", "7", "3", "9", "6">>

\* The texts given to <colors> and to <quality>.
ColorsTexts == {<<"2">>, <<"2", "5", "6">>, <<"1">>, <<"2", "5", "7">>, <<"x">>, <<"1", "6", "x">>, S_wraps_to_2}

QualityTexts == {<<"1">>, <<"1", "0", "0">>, <<"0">>, <<"1", "0", "1">>, S_wraps_to_100}

\* The top-level children of the documents about the formats' parameters.
ParameterNodes ==
  {FmtColors(t) : t \in ColorsTexts} \cup {FmtQuality(t) : t \in QualityTexts} \cup {MergeF, SvcWms}

\* The same step on the documents made of <format>, <services> and
\* <merge_format> only.
WalkFormats(Pool) ==
  \E node \in {n \in Pool : Admissible(n)} :
    \/ DispatchFormat(node)
    \/ DispatchServices(node)
    \/ DispatchMergeFormat(node)

\* ---------------------------------------------------- the specifications

Next ==
  \/ Start
  \/ Walk(Nodes)
  \/ EndWalk
  \/ ProbeLockdir
  \/ CheckServices

Spec == Init /\ [][Next]_vars

\* The same compiler on the documents about formats.
NextFormats ==
  \/ Start
  \/ WalkDeclarations(FormatNodes)
  \/ EndWalk
  \/ ProbeLockdir
  \/ CheckServices

SpecFormats == Init /\ [][NextFormats]_vars

\* The same compiler on the documents about the formats' parameters.
NextParameters ==
  \/ Start
  \/ WalkFormats(ParameterNodes)
  \/ EndWalk
  \/ ProbeLockdir
  \/ CheckServices

SpecParameters == Init /\ [][NextParameters]_vars

\* ------------------------------------------------------------ the claims

Terminal == pc \in {"DONE", "FAILED"}

\* This step read one more top-level child.
ReadsChild == Len(doc') = Len(doc) + 1

\* The name attribute of a declaration.
NameOf(node) == extractNameAndTypeAttributes(node.properties).name

IsElement(node) == node.type = "XML_ELEMENT_NODE"

\* The registry a declaration of this tag goes to.
RegistryOf(cfg, tag) ==
  CASE tag = "source" -> cfg.sources
    [] tag = "cache" -> cfg.caches
    [] tag = "tileset" -> cfg.tilesets
    [] tag = "format" -> cfg.image_formats

\* The declaration's name is already in its category's registry.
DuplicateDecl(node, cfg) ==
  /\ IsElement(node)
  /\ node.name \in {"source", "cache", "tileset"}
  /\ NameOf(node) \in DOMAIN RegistryOf(cfg, node.name)

DuplicateMsg(tag) ==
  CASE tag = "source" -> "duplicate source with name"
    [] tag = "cache" -> "duplicate cache with name"
    [] tag = "tileset" -> "duplicate tileset with name"

\* C1: a source, cache or tileset declaration whose name is already in its
\* registry fails with the ParseError "duplicate ... with name" on that name,
\* whatever else is wrong with it (so before anything of it is created or
\* looked at), and the configuration stays as it was.
C1_DuplicateRejected ==
  [][(ReadsChild /\ DuplicateDecl(doc'[Len(doc')], config)) =>
       LET node == doc'[Len(doc')]
       IN /\ pc' = "FAILED"
          /\ ctx'.errcode = GEOCACHE_PARSE_ERROR
          /\ ctx'.errmsg = DuplicateMsg(node.name)
          /\ ctx'.errargs = <<NameOf(node)>>
          /\ config' = config]_vars

\* A second t1, on a cache nobody declared, is refused as a duplicate while
\* the first t1 stays registered.
C1_Witness ==
  /\ pc = "FAILED"
  /\ Len(doc) > 0
  /\ cur_node = TsT1NoSuchCache
  /\ ctx.errmsg = "duplicate tileset with name"
  /\ S_t1 \in DOMAIN config.tilesets
  /\ config.tilesets[S_t1].id < Len(doc)

\* C2: once the context holds an error nothing more happens (no child is
\* read, no postcondition runs, the configuration and the error slot stay as
\* they are), and the step that records the error ends the compilation.
C2_FailFast ==
  [][/\ GC_HAS_ERROR(ctx) => UNCHANGED vars
     /\ GC_HAS_ERROR(ctx') => pc' = "FAILED"]_vars

\* A source fails in the middle of a document: no postcondition has run.
C2_Witness ==
  /\ pc = "FAILED"
  /\ Len(doc) = 2
  /\ cur_node = SrcUnparsed
  /\ ctx.errcode = GEOCACHE_PARSE_ERROR
  /\ probe = "none"

\* The element children of node called tag, as indices.
ChildrenCalled(node, tags) ==
  {i \in 1..Len(node.children) : IsElement(node.children[i]) /\ node.children[i].name \in tags}

\* The text of the last child called tag.
LastChild(node, tag) ==
  LET is == ChildrenCalled(node, {tag})
  IN node.children[CHOOSE i \in is : \A j \in is : j <= i].content

\* A cache, source or format child of a tileset that names nothing registered.
Unresolved(c, cfg) == IsElement(c) /\ c.name \in {"cache", "source", "format"}
                      /\ c.content \notin DOMAIN RegistryOf(cfg, c.name)

\* A numeric child of a tileset that the loop rejects.
Malformed(c) ==
  /\ IsElement(c)
  /\ \/ c.name \in {"size", "metatile"}
        /\ LET r == geocache_util_extract_int_list(c.content, " ") IN ~r.ok \/ Len(r.values) # 2
     \/ c.name = "extent"
        /\ LET r == geocache_util_extract_double_list(c.content, " ") IN ~r.ok \/ Len(r.values) # 4
     \/ c.name = "resolutions"
        /\ LET r == geocache_util_extract_double_list(c.content, " ") IN ~r.ok \/ Len(r.values) = 0
     \/ c.name \in {"expires", "metabuffer"} /\ strtol(c.content).endptr # <<>>

\* The first child of a tileset declaration that the loop stops at, or 0.
FirstBad(node, cfg) ==
  LET bad == {i \in 1..Len(node.children) :
                Unresolved(node.children[i], cfg) \/ Malformed(node.children[i])}
  IN IF bad = {} THEN 0 ELSE CHOOSE i \in bad : \A j \in bad : i <= j

\* Every registered tileset holds the very cache and source that are
\* registered under the names its declaration gave.
C3_Refs ==
  \A n \in DOMAIN config.tilesets :
    LET t == config.tilesets[n]
        node == doc[t.id]
    IN /\ ChildrenCalled(node, {"cache"}) # {} /\ ChildrenCalled(node, {"source"}) # {}
       /\ LastChild(node, "cache") \in DOMAIN config.caches
       /\ LastChild(node, "source") \in DOMAIN config.sources
       /\ t.cache = config.caches[LastChild(node, "cache")]
       /\ t.source = config.sources[LastChild(node, "source")]

\* C3: a tileset declaration that gets as far as a cache, source or format
\* child naming nothing registered at that moment fails with the ParseError
\* that names the tileset and the missing name, and is not registered; and
\* every registered tileset holds the cache and source registered under the
\* names it gave.
C3_ReferencesResolved ==
  [][/\ (/\ ReadsChild
         /\ LET node == doc'[Len(doc')]
            IN /\ IsElement(node) /\ node.name = "tileset"
               /\ ~Missing(NameOf(node))
               /\ ~DuplicateDecl(node, config)
               /\ FirstBad(node, config) # 0
               /\ Unresolved(node.children[FirstBad(node, config)], config))
        => LET node == doc'[Len(doc')]
               c == node.children[FirstBad(node, config)]
           IN /\ pc' = "FAILED"
              /\ ctx'.errcode = GEOCACHE_PARSE_ERROR
              /\ ctx'.errmsg = CASE c.name = "cache" -> "tileset references cache, but it is not configured"
                                 [] c.name = "source" -> "tileset references source, but it is not configured"
                                 [] c.name = "format" -> "tileset references format, but it is not configured"
              /\ ctx'.errargs = <<NameOf(node), c.content>>
              /\ config' = config
     /\ C3_Refs']_vars

\* A tileset on a registered cache names a source that nothing declares.
C3_Witness ==
  /\ pc = "FAILED"
  /\ Len(doc) > 1
  /\ cur_node = TsNoSuchSource
  /\ ctx.errmsg = "tileset references source, but it is not configured"
  /\ ctx.errargs = <<S_t2, S_absent>>
  /\ S_diskcache \in DOMAIN config.caches

\* C4: every registered tileset has a cache, a source, an srs, an extent that
\* is flat on neither axis and at least one level; its declaration has an
\* extent tag.
C4_RegisteredTilesetsValid ==
  \A n \in DOMAIN config.tilesets :
    LET t == config.tilesets[n]
    IN /\ t.cache # NULL
       /\ t.source # NULL
       /\ t.srs # NullStr
       /\ t.extent[1] # t.extent[3]
       /\ t.extent[2] # t.extent[4]
       /\ t.levels >= 1
       /\ ChildrenCalled(doc[t.id], {"extent"}) # {}

\* With t1 registered, a tileset that is complete but for a flat extent is
\* refused.
C4_Witness ==
  /\ pc = "FAILED"
  /\ Len(doc) > 0
  /\ cur_node = TsFlatX
  /\ ctx.errmsg = "tileset has no (or invalid) extent configured"
  /\ S_t1 \in DOMAIN config.tilesets
  /\ S_t2 \notin DOMAIN config.tilesets

\* No <wms> or <tms> entry of any <services> block read so far has a text
\* other than "false" (in particular when there is no such block).
NoServiceInDoc ==
  \A i \in 1..Len(doc) :
    (IsElement(doc[i]) /\ doc[i].name = "services") =>
      \A k \in ChildrenCalled(doc[i], {"wms", "tms"}) : doc[i].children[k].content = S_false

NoServiceEnabled ==
  ~config.services.GEOCACHE_SERVICE_WMS /\ ~config.services.GEOCACHE_SERVICE_TMS

\* C8 as stated: whenever the walk completed without error (so the probe
\* ran) and the document enables no service, no service is enabled and the
\* compilation ends with the ParseError "no services configured".
C8_AsStated ==
  (Terminal /\ probe # "none" /\ NoServiceInDoc) =>
    /\ NoServiceEnabled
    /\ pc = "FAILED"
    /\ ctx.errcode = GEOCACHE_PARSE_ERROR
    /\ ctx.errmsg = "no services configured"

\* C8, amended: ... no service is enabled, and the compilation ends in
\* failure: with the ParseError "no services configured" when the
\* lock-directory probe succeeded, with the probe's DiskError otherwise.
C8_NoServices ==
  (probe # "none" /\ NoServiceInDoc) =>
    /\ NoServiceEnabled
    /\ pc # "DONE"
    /\ Terminal =>
         /\ pc = "FAILED"
         /\ IF probe = "ok"
              THEN ctx.errcode = GEOCACHE_PARSE_ERROR /\ ctx.errmsg = "no services configured"
              ELSE ctx.errcode = GEOCACHE_DISK_ERROR

\* A document whose only services entry is wms = "false" ends with
\* "no services configured".
C8_Witness ==
  /\ pc = "FAILED"
  /\ ctx.errmsg = "no services configured"
  /\ \E i \in 1..Len(doc) : doc[i] = SvcWmsFalse
  /\ NoServiceInDoc

\* The five declarations of the end-to-end document.
E2ENodes == {FmtPNG, CacheDisk, SrcWms1, TsT1, SvcWms}

Position(d, node) == CHOOSE i \in 1..Len(d) : d[i] = node

\* d is the beginning of an end-to-end document: some of the five
\* declarations, each once, t1 after diskcache and wms1.
IsE2EPrefix(d) ==
  /\ \A i \in 1..Len(d) : d[i] \in E2ENodes
  /\ \A i, j \in 1..Len(d) : d[i] = d[j] => i = j
  /\ \A i \in 1..Len(d) :
       d[i] = TsT1 => \E j, k \in 1..(i - 1) : d[j] = CacheDisk /\ d[k] = SrcWms1

IsE2E(d) == IsE2EPrefix(d) /\ Len(d) = Cardinality(E2ENodes)

\* What the end-to-end document leaves behind but for the formats.
E2ECompiled ==
  /\ pc = "DONE"
  /\ ~GC_HAS_ERROR(ctx)
  /\ DOMAIN config.caches = {S_diskcache}
  /\ DOMAIN config.sources = {S_wms1}
  /\ DOMAIN config.tilesets = {S_t1}
  /\ config.caches[S_diskcache].id = Position(doc, CacheDisk)
  /\ config.sources[S_wms1].id = Position(doc, SrcWms1)
  /\ config.sources[S_wms1].srs = S_epsg4326
  /\ config.tilesets[S_t1].id = Position(doc, TsT1)
  /\ config.tilesets[S_t1].levels = 4
  /\ config.tilesets[S_t1].resolutions = <<1, 2, 4, 8>>
  /\ config.tilesets[S_t1].extent = <<-180, -90, 180, 90>>
  /\ config.tilesets[S_t1].tile_sx = 256 /\ config.tilesets[S_t1].tile_sy = 256
  /\ config.tilesets[S_t1].format = NULL
  /\ S_PNG \in DOMAIN config.image_formats
  /\ config.image_formats[S_PNG].id = Position(doc, FmtPNG)

\* While the children of an end-to-end document are read nothing fails.
E2EWalks == (Len(doc) > 0 /\ IsE2EPrefix(doc) /\ GC_HAS_ERROR(ctx)) => probe # "none"

\* C9 as stated: the end-to-end document with a usable lock directory
\* compiles to DONE and the registries hold its four names and no others.
C9_AsStated ==
  /\ E2EWalks
  /\ (IsE2E(doc) /\ Terminal /\ probe = "ok") =>
       E2ECompiled /\ DOMAIN config.image_formats = {S_PNG}

\* C9, amended: ... the registries hold its four names and, besides them,
\* only the built-in formats PNG8 and JPEG.
C9_EndToEnd ==
  /\ E2EWalks
  /\ (IsE2E(doc) /\ Terminal /\ probe = "ok") =>
       /\ E2ECompiled
       /\ DOMAIN config.image_formats = {S_PNG, S_PNG8, S_JPEG}
       /\ config.image_formats[S_PNG8].id \in BuiltinIds
       /\ config.image_formats[S_JPEG].id \in BuiltinIds

C9_Witness == pc = "DONE" /\ IsE2E(doc) /\ probe = "ok"

\* C10: the orchestrator goes INIT, WALK_TOP_LEVEL (one child per step, in
\* order), POSTCHECK_LOCKDIR, POSTCHECK_SERVICES, DONE, or to FAILED with the
\* first error; the probe runs once, after the walk; DONE needs the probe to
\* have succeeded and a service enabled; the probe's failures are DiskErrors
\* and all others ParseErrors; nothing follows DONE or FAILED.
C10_StateMachine ==
  [][/\ pc = "INIT" => pc' \in {"WALK_TOP_LEVEL", "FAILED"}
     /\ pc = "WALK_TOP_LEVEL" => pc' \in {"WALK_TOP_LEVEL", "POSTCHECK_LOCKDIR", "FAILED"}
     /\ pc = "POSTCHECK_LOCKDIR" => pc' \in {"POSTCHECK_SERVICES", "FAILED"}
     /\ pc = "POSTCHECK_SERVICES" => pc' \in {"DONE", "FAILED"}
     /\ ~Terminal
     /\ doc' # doc => pc = "WALK_TOP_LEVEL" /\ ReadsChild /\ SubSeq(doc', 1, Len(doc)) = doc
     /\ (pc = "WALK_TOP_LEVEL" /\ pc' # "POSTCHECK_LOCKDIR") => ReadsChild
     /\ probe' # probe => pc = "POSTCHECK_LOCKDIR" /\ probe = "none" /\ ~GC_HAS_ERROR(ctx)
     /\ pc = "POSTCHECK_LOCKDIR" => probe' # "none"
     /\ pc' = "POSTCHECK_SERVICES" => probe' = "ok"
     /\ pc' = "DONE" => probe' = "ok" /\ ~NoServiceEnabled' /\ ~GC_HAS_ERROR(ctx')
     /\ pc' = "FAILED" <=> GC_HAS_ERROR(ctx')
     /\ pc' = "FAILED" =>
          ctx'.errcode = IF pc = "POSTCHECK_LOCKDIR" THEN GEOCACHE_DISK_ERROR
                                                     ELSE GEOCACHE_PARSE_ERROR]_vars

\* The probe fails after a walk that went well.
C10_Witness ==
  /\ pc = "FAILED"
  /\ ctx.errcode = GEOCACHE_DISK_ERROR
  /\ probe = "open_failed"
  /\ Len(doc) > 1
  /\ ~NoServiceEnabled

\* The declaration of a tileset names no format.
NoFormatTag(node) == ChildrenCalled(node, {"format"}) = {}

\* Metatile (1,1) and metabuffer 0.
SingleTile(t) == t.metasize_x = 1 /\ t.metasize_y = 1 /\ t.metabuffer = 0

\* A merge_format declaration follows the i-th child.
MergeFormatAfter(i) ==
  \E j \in (i + 1)..Len(doc) : IsElement(doc[j]) /\ doc[j].name = "merge_format"

\* C5 as stated: when the compilation is done, a registered tileset that
\* named no format has no format if it is single-tile and has
\* config.merge_format otherwise, wherever merge_format is declared.
C5_AsStated ==
  pc = "DONE" =>
    \A n \in DOMAIN config.tilesets :
      LET t == config.tilesets[n]
      IN NoFormatTag(doc[t.id]) =>
           t.format = IF SingleTile(t) THEN NULL ELSE config.merge_format

\* What holds of the registered tilesets that named no format.
C5_Registered ==
  \A n \in DOMAIN config.tilesets :
    LET t == config.tilesets[n]
    IN NoFormatTag(doc[t.id]) =>
         /\ SingleTile(t) => t.format = NULL
         /\ (~SingleTile(t) /\ ~MergeFormatAfter(t.id)) => t.format = config.merge_format

\* C5, amended: a registered tileset that named no format has no format if
\* it is single-tile, and otherwise the merge format that was the default
\* when the tileset was declared: config.merge_format at the end, provided
\* no merge_format declaration follows the tileset in the document.
C5_Backfill ==
  [][/\ \A n \in DOMAIN config'.tilesets \ DOMAIN config.tilesets :
          LET t == config'.tilesets[n]
          IN NoFormatTag(doc'[t.id]) =>
               t.format = IF SingleTile(t) THEN NULL ELSE config.merge_format
     /\ C5_Registered']_vars

\* merge_format JPEG, then a metatiled tileset without a format: it ends
\* with the JPEG format, the default at the end.
C5_Witness ==
  /\ pc = "DONE"
  /\ S_metatiled \in DOMAIN config.tilesets
  /\ config.tilesets[S_metatiled].format = config.merge_format
  /\ config.merge_format.id = -3
  /\ \E i \in 1..Len(doc) : doc[i] = MergeJPEG

\* The tags a format of this type recognizes.
FormatTags(type) ==
  IF type = S_PNG THEN {"compression", "colors"} ELSE IF type = S_JPEG THEN {"quality"} ELSE {}

\* In the text: a whole decimal number from lo to hi.
IntegerIn(text, lo, hi) ==
  LET r == strtol(text) IN r.endptr = <<>> /\ r.val >= lo /\ r.val <= hi

\* A recognized child of a format whose text is accepted.
GoodFormatChild(c) ==
  \/ c.name = "compression" /\ c.content \in {S_fast, S_best}
  \/ c.name = "colors" /\ IntegerIn(c.content, 2, 256)
  \/ c.name = "quality" /\ IntegerIn(c.content, 1, 100)

\* A format declaration with a name, a type PNG or JPEG, and whose children
\* with a tag its type recognizes are all good.
FormatDecl(node) ==
  /\ IsElement(node) /\ node.name = "format"
  /\ ~Missing(NameOf(node))
  /\ extractNameAndTypeAttributes(node.properties).type \in {S_PNG, S_JPEG}
  /\ \A k \in ChildrenCalled(node, FormatTags(extractNameAndTypeAttributes(node.properties).type)) :
       GoodFormatChild(node.children[k])

\* The children of a format declaration with a tag its type does not recognize.
StrayChildren(node) ==
  {k \in 1..Len(node.children) :
     /\ IsElement(node.children[k])
     /\ node.children[k].name \notin FormatTags(extractNameAndTypeAttributes(node.properties).type)}

\* C6: a format declaration of type PNG or JPEG with a child other than
\* those its type recognizes fails with the ParseError "unknown tag" naming
\* the first such tag and the format, and the registry stays as it was.
C6_SchemaStrict ==
  [][(ReadsChild /\ FormatDecl(doc'[Len(doc')]) /\ StrayChildren(doc'[Len(doc')]) # {}) =>
       LET node == doc'[Len(doc')]
           first == CHOOSE k \in StrayChildren(node) : \A j \in StrayChildren(node) : k <= j
       IN /\ pc' = "FAILED"
          /\ ctx'.errcode = GEOCACHE_PARSE_ERROR
          /\ ctx'.errmsg = "unknown tag for format"
          /\ ctx'.errargs = <<node.children[first].name, NameOf(node)>>
          /\ config' = config]_vars

\* The three built-in formats, and nothing else.
OnlyBuiltins(formats) ==
  /\ DOMAIN formats = {S_PNG, S_PNG8, S_JPEG}
  /\ formats[S_PNG].type = "PNG" /\ formats[S_PNG].compression = "GEOCACHE_COMPRESSION_FAST"
  /\ formats[S_PNG8].type = "PNG_Q" /\ formats[S_PNG8].colors = 256
  /\ formats[S_JPEG].type = "JPEG" /\ formats[S_JPEG].quality = 95
  /\ \A k \in DOMAIN formats : formats[k].id \in BuiltinIds

\* C7: before any child is read the format registry holds the three
\* built-in formats and nothing else; a valid format declaration (no stray
\* child) never fails, whatever is registered under its name, and puts the
\* format it declares under its name, leaving every other name as it was.
C7_InsertOrOverwrite ==
  [][/\ doc = <<>> => OnlyBuiltins(config.image_formats)
     /\ (ReadsChild /\ FormatDecl(doc'[Len(doc')]) /\ StrayChildren(doc'[Len(doc')]) = {}) =>
          LET node == doc'[Len(doc')]
              name == NameOf(node)
              type == extractNameAndTypeAttributes(node.properties).type
              old == config.image_formats
              new == config'.image_formats
          IN /\ pc' = "WALK_TOP_LEVEL"
             /\ ~GC_HAS_ERROR(ctx')
             /\ DOMAIN new = DOMAIN old \cup {name}
             /\ \A k \in DOMAIN old : k # name => new[k] = old[k]
             /\ new[name].id = Len(doc')
             /\ new[name].name = name
             /\ new[name].type =
                  IF type = S_JPEG THEN "JPEG"
                  ELSE IF ChildrenCalled(node, {"colors"}) = {} THEN "PNG" ELSE "PNG_Q"]_vars

\* The built-in PNG is replaced by a declared PNG, which is replaced again.
C7_Witness ==
  /\ pc = "WALK_TOP_LEVEL"
  /\ Len(doc) = 2
  /\ doc[1] = FmtPNG /\ doc[2] = FmtPNG
  /\ config.image_formats[S_PNG].id = 2

RECURSIVE CappedAcc(_, _)
\* The number the digit string s stands for, counted from a, or 1000 when it
\* is 1000 or more.
CappedAcc(s, a) ==
  IF s = <<>> THEN a
  ELSE CappedAcc(Tail(s), IF a * 10 + DigitVal(Head(s)) > 1000 THEN 1000 ELSE a * 10 + DigitVal(Head(s)))

\* The text is a decimal integer, all of it, and the integer it stands for
\* is from lo to hi (lo >= 0, hi < 1000).
DecimalIn(text, lo, hi) ==
  /\ text # <<>>
  /\ \A i \in 1..Len(text) : isdigit(text[i])
  /\ CappedAcc(text, 0) >= lo
  /\ CappedAcc(text, 0) <= hi

\* The declaration is a format with the one child tag, which its type reads.
ParameterDecl(node, tag) ==
  /\ IsElement(node) /\ node.name = "format"
  /\ Len(node.children) = 1 /\ node.children[1].name = tag
  /\ extractNameAndTypeAttributes(node.properties).type = (IF tag = "colors" THEN S_PNG ELSE S_JPEG)

\* The step registers the format that the child it reads declares.
Accepted ==
  /\ pc' = "WALK_TOP_LEVEL"
  /\ ~GC_HAS_ERROR(ctx')
  /\ NameOf(doc'[Len(doc')]) \in DOMAIN config'.image_formats
  /\ config'.image_formats[NameOf(doc'[Len(doc')])].id = Len(doc')

\* The step fails with a ParseError and registers nothing.
Rejected ==
  /\ pc' = "FAILED"
  /\ ctx'.errcode = GEOCACHE_PARSE_ERROR
  /\ config' = config

\* C11: a format with <colors> is accepted exactly when the text is a whole
\* decimal integer from 2 to 256, and a format with <quality> exactly when
\* it is one from 1 to 100; otherwise the declaration ends in a ParseError
\* and no format is registered.
C11_ParameterRanges ==
  [][/\ (ReadsChild /\ ParameterDecl(doc'[Len(doc')], "colors")) =>
          IF DecimalIn(doc'[Len(doc')].children[1].content, 2, 256) THEN Accepted ELSE Rejected
     /\ (ReadsChild /\ ParameterDecl(doc'[Len(doc')], "quality")) =>
          IF DecimalIn(doc'[Len(doc')].children[1].content, 1, 100) THEN Accepted ELSE Rejected]_vars

\* Every name of the registry old is in new, with the same entity.
Kept(old, new) ==
  /\ DOMAIN old \subseteq DOMAIN new
  /\ \A k \in DOMAIN old : new[k] = old[k]

\* C12 as stated: in each of the four registries a name, once it maps to an
\* entity, maps to that same entity after every step.
C12_AsStated ==
  [][/\ Kept(config.sources, config'.sources)
     /\ Kept(config.caches, config'.caches)
     /\ Kept(config.tilesets, config'.tilesets)
     /\ Kept(config.image_formats, config'.image_formats)]_vars

\* C12: in the sources, caches and tilesets registries a name, once it maps
\* to an entity, maps to that same entity after every step; in the formats
\* registry a name stays registered, and it maps to another entity only after
\* the step that reads a <format> declaration of that name, which puts the
\* format it creates there.
C12_NoReplacement ==
  [][/\ Kept(config.sources, config'.sources)
     /\ Kept(config.caches, config'.caches)
     /\ Kept(config.tilesets, config'.tilesets)
     /\ DOMAIN config.image_formats \subseteq DOMAIN config'.image_formats
     /\ \A k \in DOMAIN config.image_formats :
          config'.image_formats[k] # config.image_formats[k] =>
            /\ ReadsChild
            /\ IsElement(doc'[Len(doc')]) /\ doc'[Len(doc')].name = "format"
            /\ NameOf(doc'[Len(doc')]) = k
            /\ config'.image_formats[k].id = Len(doc')]_vars

\* A cache, a source and a tileset are registered, two more declarations
\* have been read since, and the last one replaced the format PNG; the three
\* are still the entities their declarations created.
C12_Witness ==
  /\ pc = "WALK_TOP_LEVEL"
  /\ Len(doc) = 5
  /\ doc[1] = CacheDisk /\ doc[2] = SrcWms1 /\ doc[3] = TsT1 /\ doc[4] = FmtF /\ doc[5] = FmtPNG
  /\ config.caches[S_diskcache].id = 1
  /\ config.sources[S_wms1].id = 2
  /\ config.tilesets[S_t1].id = 3
  /\ config.image_formats[S_f].id = 4
  /\ config.image_formats[S_PNG].id = 5

\* Some registered name maps to exactly this format.
HeldByRegistry(format) ==
  \E k \in DOMAIN config.image_formats : config.image_formats[k] = format

\* C13: the default merge format is set and is held by the formats
\* registry, and so is the format of every registered tileset that has one.
C13_FormatsHeld ==
  /\ config.merge_format # NULL
  /\ HeldByRegistry(config.merge_format)
  /\ \A t \in DOMAIN config.tilesets :
       config.tilesets[t].format # NULL => HeldByRegistry(config.tilesets[t].format)

====
